---- MODULE Spec2Model ----
(***************************************************************************)
(* The storefront's cart store (CartContext: CartProvider and useCart) as  *)
(* a state machine: the cart held in React state, the setCart updates a    *)
(* handler queues until the provider re-renders, the persistence effect    *)
(* that writes the cart to localStorage after a render, and the browser's  *)
(* localStorage itself, keyed per store slug.  On top of it, the storefront  *)
(* page (PublicStorefrontPage): the cart panel and its checkout steps, the  *)
(* order submission with its calls to the store API, the payment callback   *)
(* and the pricing of the cart.                                             *)
(*                                                                         *)
(* Spec runs the cart store under any sequence of calls on its API;        *)
(* CheckoutSpec runs the storefront page, whose handlers make the calls.   *)
(***************************************************************************)
EXTENDS Integers, Sequences, FiniteSets, TLC

\* ------------------------------------------------------------- bounds
\* Largest quantity a call may pass and a cart line may hold.
MaxQty == 2
\* Smallest quantity a call may pass.
MinQty == 0 - 1

\* Store slugs of the route /:slug; NoSlug is a CartProvider without the prop.
NoSlug == ""
StoreA == "store-a"
StoreB == "store-b"

Prod1 == "prod-1"
Prod2 == "prod-2"
Products == {Prod1, Prod2}

\* The environments the provider is run in.  A store lists its own products;
\* the calls pass the quantities of qtyArgs and the lines hold quantities
\* within qtyFloor..qtyCap.
SingleStore ==
    [slugs    |-> {StoreA},
     catalog  |-> [s \in {StoreA} |-> Products],
     qtyArgs  |-> MinQty..MaxQty,
     qtyFloor |-> 0,
     qtyCap   |-> MaxQty]
TwoStores ==
    [slugs    |-> {StoreA, StoreB},
     catalog  |-> [s \in {StoreA, StoreB} |-> IF s = StoreA THEN {Prod1} ELSE {Prod2}],
     qtyArgs  |-> {1},
     qtyFloor |-> 0,
     qtyCap   |-> 1]
Unbound ==
    [slugs    |-> {NoSlug},
     catalog  |-> [s \in {NoSlug} |-> {Prod1}],
     qtyArgs  |-> {MinQty, 1},
     qtyFloor |-> MinQty,
     qtyCap   |-> 1]
Environments == {SingleStore, TwoStores, Unbound}

VARIABLES
    env,            \* the environment of this run (fixed by Init)
    storage,        \* localStorage: key -> stored text
    page,           \* "none": a route without provider; "store": StorePage
                    \* mounted; "error": the error boundary's fallback
    slug,           \* the storeSlug prop of the mounted provider
    cart,           \* the cart state of the last committed render
    pendingCart,    \* the state the queued setCart updates evaluate to
    hasPending,     \* setCart updates are queued, no render since
    effectPending,  \* a render was committed, its persistence effect not run
    thrown,         \* the error raised to the error boundary, or "none"
    lastCall,       \* the last call on the cart API in this session
    cartOpen,       \* useState(false): the cart panel is shown
    checkoutStep,   \* useState('cart'): the step the panel shows
    orderNumber,    \* useState(null): the order number the page recorded
    submitting,     \* useState(false)
    selectedPaymentMethod,  \* useState(null)
    searchParams,   \* the query of the URL the page was loaded with
    order,          \* the run of handlePlaceOrder that is under way
    verifying,      \* verifyPayment calls of this document not yet answered
    succeeded,      \* the API calls answered with success since the load
    verifyCalls,    \* verifyPayment calls made so far, over all loads
    formValues,     \* useForm: the values the checkout form holds
    currencyInput,  \* the text of an amount field
    parsed,         \* what parseCurrencyInput made of it, or NotParsed
    otherTab        \* the provider of a second tab of the same browser

\* The state of PublicStorefrontPage and of the calls it has in flight.
checkoutVars == <<cartOpen, checkoutStep, orderNumber, submitting,
                  selectedPaymentMethod, searchParams, order, verifying,
                  succeeded, verifyCalls, formValues>>

\* An amount field and its parsed value.
currencyVars == <<currencyInput, parsed>>

vars == <<env, storage, page, slug, cart, pendingCart, hasPending,
          effectPending, thrown, lastCall, checkoutVars, currencyVars, otherTab>>

\* ------------------------------------------------------------- storage text
\* A stored text: absent (getItem gives null), the empty text, text that is
\* no JSON, JSON that is no array, or the JSON array of line items.
Absent  == [kind |-> "absent",  items |-> <<>>]
Empty   == [kind |-> "empty",   items |-> <<>>]
Garbage == [kind |-> "garbage", items |-> <<>>]
NotList == [kind |-> "object",  items |-> <<>>]
ForeignContents == {Absent, Empty, Garbage, NotList}

storageKey(storeSlug) ==
    IF storeSlug # NoSlug THEN "cart_" \o storeSlug ELSE "cart"

Keys == {storageKey(s) : s \in {StoreA, StoreB, NoSlug}}

\* JSON.stringify of the cart merged with the lines already stored.
JSON_stringify_MergesStored(c) ==
    [kind  |-> "array",
     items |-> c \o SelectSeq(storage[storageKey(slug)].items,
                    LAMBDA item : \A i \in 1..Len(c) : c[i].productId # item.productId)]

JSON_stringify(c) == [kind |-> "array", items |-> c]

\* A provider that is not mounted.
NoTab ==
    [page |-> "none", slug |-> NoSlug, cart |-> <<>>, pendingCart |-> <<>>,
     hasPending |-> FALSE, effectPending |-> FALSE, thrown |-> "none",
     lastCall |-> "none"]

\* JSON.parse: throws on text that is no JSON; otherwise the value, which is
\* an array only for the text of an array.
JSON_parse(text) ==
    IF text.kind \in {"garbage", "empty"}
    THEN [threw |-> TRUE,  isArray |-> FALSE, items |-> <<>>]
    ELSE [threw |-> FALSE, isArray |-> text.kind = "array", items |-> text.items]

\* The useState initialiser: the value the cart state starts with.
initialCart(stored, getItemThrows) ==
    LET empty == [isArray |-> TRUE, items |-> <<>>] IN
    IF getItemThrows THEN empty
    ELSE IF stored.kind \in {"absent", "empty"} THEN empty
    ELSE LET v == JSON_parse(stored) IN
         IF v.threw THEN empty ELSE [isArray |-> v.isArray, items |-> v.items]

\* ------------------------------------------------------------- updaters
Line(p, q) == [productId |-> p, quantity |-> q]

SelectIdx(c, p) == {i \in 1..Len(c) : c[i].productId = p}

\* addToCart that replaces the quantity of the line it finds.
addToCart_Overwrite(prev, item) ==
    IF \E i \in 1..Len(prev) : prev[i].productId = item.productId
    THEN [i \in 1..Len(prev) |->
            IF prev[i].productId = item.productId
            THEN [prev[i] EXCEPT !.quantity = item.quantity]
            ELSE prev[i]]
    ELSE Append(prev, item)

\* addToCart that does not look for the product's line.
addToCart_AlwaysAppend(prev, item) == Append(prev, item)

addToCart(prev, item) ==
    IF \E i \in 1..Len(prev) : prev[i].productId = item.productId
    THEN [i \in 1..Len(prev) |->
            IF prev[i].productId = item.productId
            THEN [prev[i] EXCEPT !.quantity = prev[i].quantity + item.quantity]
            ELSE prev[i]]
    ELSE Append(prev, item)

removeFromCart(prev, productId) ==
    SelectSeq(prev, LAMBDA item : item.productId # productId)

\* updateQuantity whose removal test is quantity < 0.
updateQuantity_NegativeOnly(prev, productId, quantity) ==
    IF quantity < 0
    THEN removeFromCart(prev, productId)
    ELSE [i \in 1..Len(prev) |->
            IF prev[i].productId = productId
            THEN [prev[i] EXCEPT !.quantity = quantity]
            ELSE prev[i]]

updateQuantity(prev, productId, quantity) ==
    IF quantity <= 0
    THEN removeFromCart(prev, productId)
    ELSE [i \in 1..Len(prev) |->
            IF prev[i].productId = productId
            THEN [prev[i] EXCEPT !.quantity = quantity]
            ELSE prev[i]]

\* clearCart that sets the cart to what it was.
clearCart_KeepsItems(prev) == prev

clearCart(prev) == <<>>

RECURSIVE reduceQuantity(_, _, _)
reduceQuantity(c, i, sum) ==
    IF i > Len(c) THEN sum ELSE reduceQuantity(c, i + 1, sum + c[i].quantity)

getCartItemCount(c) == reduceQuantity(c, 1, 0)

\* useCart: the context value, or the error when no provider encloses the
\* caller (the context's default is undefined).
ContextError == "useCart must be used within CartProvider"
\* useCart that hands out a context whether or not a provider is mounted.
useCart_DefaultContext(providerMounted) == [threw |-> FALSE, error |-> "none"]

useCart(providerMounted) ==
    IF ~providerMounted
    THEN [threw |-> TRUE,  error |-> ContextError]
    ELSE [threw |-> FALSE, error |-> "none"]

\* ------------------------------------------------------------- the page
\* A text is the sequence of its characters.
Digits == {"0", "1", "2", "3", "4", "5", "6", "7", "8", "9"}

\* PaymentMethod, and null for no selection.
PaymentMethods == {"ONLINE", "BANK_TRANSFER", "CASH"}
NoMethod == "none"

\* Order numbers the server issues, and null for none recorded.
OrderNumbers == {"ORD-1", "ORD-2"}
NoOrderNumber == "none"

\* The query of a URL: searchParams.get gives null for a parameter that is
\* not there, written "" here (the effect tests both for truthiness alone).
Query(reference, orderNum) == [reference |-> reference, order |-> orderNum]
NoQuery == Query("", "")
Queries == {Query(r, o) : r \in {"", "ref_123"}, o \in {"", "ORD-1"}}

\* useForm's defaultValues.
DefaultValues ==
    [name |-> <<>>, phone |-> <<>>, email |-> <<>>, address |-> <<>>,
     deliveryNotes |-> <<>>]

\* parseCurrencyInput has not been applied to the text of the field.
NotParsed == [called |-> FALSE, value |-> 0]

\* No run of handlePlaceOrder is under way.  Of a run there are the line it
\* has reached (pc), the cart, method and form values it started with, the
\* order number it got (data) and the response it handled last (res); data
\* and res stay when the run has ended.
NoSubmission ==
    [pc |-> "idle", items |-> <<>>, method |-> NoMethod,
     formData |-> DefaultValues, data |-> NoOrderNumber, res |-> "none"]

\* checkoutSchema, field by field.  The phone is stripped of blanks,
\* brackets and dashes and must then read 0 and ten digits, or +234 and ten
\* digits.
cleaned(val) == SelectSeq(val, LAMBDA ch : ch \notin {" ", "(", ")", "-"})

RECURSIVE trimStart(_)
trimStart(val) ==
    IF val # <<>> /\ Head(val) = " " THEN trimStart(Tail(val)) ELSE val

RECURSIVE trimEnd(_)
trimEnd(val) ==
    IF val # <<>> /\ val[Len(val)] = " "
    THEN trimEnd(SubSeq(val, 1, Len(val) - 1))
    ELSE val

trim(val) == trimEnd(trimStart(val))

nameIsValid(val) == Len(val) >= 2

phoneIsValid(val) ==
    /\ Len(val) >= 1
    /\ LET c == cleaned(val) IN
        \/ /\ Len(c) = 11
           /\ c[1] = "0"
           /\ \A i \in 2..11 : c[i] \in Digits
        \/ /\ Len(c) = 14
           /\ SubSeq(c, 1, 4) = <<"+", "2", "3", "4">>
           /\ \A i \in 5..14 : c[i] \in Digits

\* z.string().email(): one @ with text before it, and after it a domain
\* with a dot inside; no blanks.
emailIsValid(val) ==
    /\ \A i \in 1..Len(val) : val[i] # " "
    /\ Cardinality({i \in 1..Len(val) : val[i] = "@"}) = 1
    /\ LET at == CHOOSE i \in 1..Len(val) : val[i] = "@" IN
        /\ at > 1
        /\ \E d \in (at + 2)..(Len(val) - 1) : val[d] = "."

addressIsValid(val) == Len(trim(val)) = 0 \/ Len(trim(val)) >= 10

deliveryNotesIsValid(val) == Len(val) <= 500

\* checkoutSchema that lets every value pass.
checkoutSchema_NoChecks(values) == {}

\* The errors of the form: the fields whose value the schema rejects.
checkoutSchema(values) ==
    {f \in {"name", "phone", "email", "address", "deliveryNotes"} :
        \/ f = "name" /\ ~nameIsValid(values.name)
        \/ f = "phone" /\ ~phoneIsValid(values.phone)
        \/ f = "email" /\ ~emailIsValid(values.email)
        \/ f = "address" /\ ~addressIsValid(values.address)
        \/ f = "deliveryNotes" /\ ~deliveryNotesIsValid(values.deliveryNotes)}

\* What the shopper may have typed when the form is submitted.
AdaEmail == <<"a", "d", "a", "@", "x", ".", "n", "g">>
Pickup ==
    [name |-> <<"A", "d", "a">>,
     phone |-> <<"0", "8", "0", "1", "2", "3", "4", "5", "6", "7", "8">>,
     email |-> AdaEmail, address |-> <<>>, deliveryNotes |-> <<>>]
Delivery ==
    [Pickup EXCEPT
        !.phone = <<"+", "2", "3", "4", " ", "8", "0", "1", "-", "2", "3", "4",
                    "-", "5", "6", "7", "8">>,
        !.address = <<"1", "2", " ", "A", "l", "l", "e", "n", " ", "A", "v", "e">>,
        !.deliveryNotes = <<"g", "a", "t", "e">>]
FormInputs ==
    {DefaultValues, Pickup, Delivery,
     [Pickup EXCEPT !.name = <<"A">>],
     [Pickup EXCEPT !.phone = <<"0", "8", "0", "1", "2", "3">>],
     [Pickup EXCEPT !.phone = <<"0", "8", "0", "1", "2", "3", "4", "5", "6", "7", "x">>],
     [Pickup EXCEPT !.email = <<>>],
     [Pickup EXCEPT !.email = <<"a", "d", "a", "@", "x">>],
     [Pickup EXCEPT !.address = <<" ", "L", "a", "g", "o", "s", " ">>]}


\* A product as a cart line carries it: unitPrice in naira, vatRate in tenths
\* of a percent (75 is 7.5%).  The amounts computed from them are numbers
\* with a fraction; they are held exactly, as thousandths of a kobo.
ProductSnapshots ==
    {item \in [unitPrice : {500, 1000}, taxable : BOOLEAN,
               vatRate : {0 - 50, 0, 75}] :
        item.taxable \/ item.vatRate = 75}

\* The products of the lines of a cart, by productId.
PriceTables == [Products -> ProductSnapshots]

\* X costs 1000 and is taxable at 7.5%; Y costs 500 and is not taxable.
ExamplePrices ==
    (Prod1 :> [unitPrice |-> 1000, taxable |-> TRUE, vatRate |-> 75]) @@
    (Prod2 :> [unitPrice |-> 500, taxable |-> FALSE, vatRate |-> 75])

\* A product of 15 naira, taxable at 7.5%.
SmallPrices ==
    [p \in Products |-> [unitPrice |-> 15, taxable |-> TRUE, vatRate |-> 75]]

\* An amount of whole kobo, and whether an amount is one.
Kobo(n) == n * 1000
IsWholeKobo(amount) == amount % 1000 = 0

\* cartSubtotal.
RECURSIVE reduceSubtotal(_, _, _, _)
reduceSubtotal(c, product, i, sum) ==
    IF i > Len(c) THEN sum
    ELSE reduceSubtotal(c, product, i + 1,
            sum + Kobo(product[c[i].productId].unitPrice * 100 * c[i].quantity))

cartSubtotal(c, product) == reduceSubtotal(c, product, 1, 0)

RECURSIVE reduceVat_IgnoresTaxable(_, _, _, _)
reduceVat_IgnoresTaxable(c, product, i, sum) ==
    IF i > Len(c) THEN sum
    ELSE LET item == product[c[i].productId] IN
         reduceVat_IgnoresTaxable(c, product, i + 1,
            IF item.vatRate > 0
            THEN sum + item.unitPrice * 100 * c[i].quantity * item.vatRate
            ELSE sum)

cartVat_IgnoresTaxable(c, product) == reduceVat_IgnoresTaxable(c, product, 1, 0)

\* cartVat: unitPrice * 100 * quantity kobo times vatRate / 100, which in
\* thousandths of a kobo and tenths of a percent is their product.
RECURSIVE reduceVat(_, _, _, _)
reduceVat(c, product, i, sum) ==
    IF i > Len(c) THEN sum
    ELSE LET item == product[c[i].productId] IN
         reduceVat(c, product, i + 1,
            IF item.taxable /\ item.vatRate > 0
            THEN sum + item.unitPrice * 100 * c[i].quantity * item.vatRate
            ELSE sum)

cartVat(c, product) == reduceVat(c, product, 1, 0)

cartTotal(c, product) == cartSubtotal(c, product) + cartVat(c, product)

\* The percentage of the processing fee line: platformFeePercentage || 3.
processingFeePercentage(store) ==
    IF store.platformFeePercentage # 0 THEN store.platformFeePercentage ELSE 3

\* The summary's total with the processing fee of an online payment added.
summaryTotal_AddsProcessingFee(c, product, watchedAddress, store) ==
    cartTotal(c, product)
        + (IF watchedAddress # <<>> THEN Kobo(store.deliveryFeeKobo) ELSE 0)
        + (IF selectedPaymentMethod = "ONLINE"
           THEN (cartTotal(c, product) * processingFeePercentage(store)) \div 100
           ELSE 0)

\* The total of the checkout summary: cartTotal and, when the address field
\* holds text, the store's delivery fee.
summaryTotal(c, product, watchedAddress, store) ==
    cartTotal(c, product)
        + (IF watchedAddress # <<>> THEN Kobo(store.deliveryFeeKobo) ELSE 0)

\* Modal's primaryButtonDisabled with no test of the cart.
primaryButtonDisabled_NoCartTest(step, c, method, busy) ==
    \/ step = "details" /\ method = NoMethod
    \/ busy

\* Modal's primaryButtonDisabled with no test of the payment method.
primaryButtonDisabled_NoMethodTest(step, c, method, busy) ==
    \/ step = "cart" /\ Len(c) = 0
    \/ busy

\* The warning of the cart step: the store has a minimum and the cart's total
\* is below it.
belowMinimumOrder(c, product, store) ==
    store.minimumOrderKobo > 0 /\ cartTotal(c, product) < Kobo(store.minimumOrderKobo)

\* Modal's primaryButtonDisabled with the minimum order enforced.
primaryButtonDisabled_BlocksBelowMinimum(step, c, method, busy) ==
    \/ step = "cart" /\ Len(c) = 0
    \/ step = "details" /\ method = NoMethod
    \/ busy
    \/ belowMinimumOrder(c, env.product, env.store)

\* Modal's primaryButtonDisabled with no test of submitting.
primaryButtonDisabled_NoSubmittingTest(step, c, method, busy) ==
    \/ step = "cart" /\ Len(c) = 0
    \/ step = "details" /\ method = NoMethod

primaryButtonDisabled(step, c, method, busy) ==
    \/ step = "cart" /\ Len(c) = 0
    \/ step = "details" /\ method = NoMethod
    \/ busy

\* What becomes of a request: the server answers 2xx with success and data,
\* with success and no data, or with success false; it answers with another
\* status; or no answer arrives (network error, CORS, timeout).
HttpOutcomes == {"data", "nodata", "refused", "status", "network"}

\* publicClient with its response interceptor: the ApiResponse the caller's
\* await resolves to.  No outcome rejects.
publicClient(http) ==
    IF http \in {"status", "network"}
    THEN [success |-> FALSE, data |-> FALSE]
    ELSE [success |-> http \in {"data", "nodata"}, data |-> http = "data"]

\* Modal's onRequestClose that leaves the cart as it is.
onRequestClose_KeepsCart(step) ==
    [step |-> IF step = "confirmation" THEN "cart" ELSE step, clear |-> FALSE]

\* Modal's onRequestClose that resets the checkout whatever the step.
onRequestClose_AlwaysReset(step) == [step |-> "cart", clear |-> TRUE]

\* Modal's onRequestClose: the step it leaves and whether it clears the cart.
onRequestClose(step) ==
    IF step = "confirmation"
    THEN [step |-> "cart", clear |-> TRUE]
    ELSE [step |-> step,   clear |-> FALSE]

\* handlePlaceOrder that does not look at the response's success.
afterPlaceOrder_AnyResponse(orderRes, method, formData) ==
    IF method = "ONLINE" /\ formData.email # <<>> THEN "initializePayment"
    ELSE "confirm"

\* handlePlaceOrder once placeOrder has answered: go on to initialise the
\* payment, show the confirmation, or leave things as they are.
afterPlaceOrder(orderRes, method, formData) ==
    IF orderRes.success /\ orderRes.data
    THEN IF method = "ONLINE" /\ formData.email # <<>>
         THEN "initializePayment"
         ELSE "confirm"
    ELSE "stay"

\* handlePlaceOrder that confirms and clears before it redirects.
afterInitializePayment_ClearsFirst(paymentRes) ==
    [redirect |-> paymentRes.success /\ paymentRes.data, confirm |-> TRUE]

\* handlePlaceOrder once initializePayment has answered: redirect to the
\* authorization URL, or show the confirmation and clear the cart.
afterInitializePayment(paymentRes) ==
    [redirect |-> paymentRes.success /\ paymentRes.data,
     confirm  |-> ~(paymentRes.success /\ paymentRes.data)]

\* The payment callback effect that asks for the reference alone.
callsVerifyPayment_ReferenceOnly(query, storeSlug) == query.reference # ""

\* The payment callback effect's condition for calling verifyPayment.
callsVerifyPayment(query, storeSlug) ==
    query.reference # "" /\ query.order # "" /\ storeSlug # NoSlug

\* ------------------------------------------------------------- the machine
WithinCap(c) == \A i \in 1..Len(c) : c[i].quantity \in env.qtyFloor..env.qtyCap

Init ==
    /\ env \in Environments
    /\ storage \in [Keys -> ForeignContents]
    /\ \A k \in Keys : k \notin {storageKey(s) : s \in env.slugs} => storage[k] = Absent
    /\ page = "none"
    /\ slug = NoSlug
    /\ cart = <<>>
    /\ pendingCart = <<>>
    /\ hasPending = FALSE
    /\ effectPending = FALSE
    /\ thrown = "none"
    /\ lastCall = "none"
    /\ cartOpen = FALSE
    /\ checkoutStep = "cart"
    /\ orderNumber = NoOrderNumber
    /\ submitting = FALSE
    /\ selectedPaymentMethod = NoMethod
    /\ searchParams = NoQuery
    /\ order = NoSubmission
    /\ verifying = 0
    /\ succeeded = {}
    /\ verifyCalls = 0
    /\ formValues = DefaultValues
    /\ currencyInput = <<>>
    /\ parsed = NotParsed
    /\ otherTab = NoTab

\* The route renders StorePage: CartProvider mounts with the route's slug and
\* PublicStorefrontPage renders inside it, calling getCartItemCount(), which
\* is cart.reduce(...) and throws for a cart that is no array.
Mount(s, getItemThrows) ==
    /\ page = "none"
    /\ s \in env.slugs
    /\ LET v == initialCart(storage[storageKey(s)], getItemThrows) IN
       IF v.isArray
       THEN /\ page' = "store"
            /\ cart' = v.items
            /\ pendingCart' = v.items
            /\ effectPending' = TRUE
            /\ thrown' = "none"
       ELSE /\ page' = "error"
            /\ cart' = <<>>
            /\ pendingCart' = <<>>
            /\ effectPending' = FALSE
            /\ thrown' = "TypeError"
    /\ slug' = s
    /\ hasPending' = FALSE
    /\ lastCall' = "none"
    /\ UNCHANGED <<env, storage, checkoutVars, currencyVars, otherTab>>

\* A handler calls one of the cart operations: its setCart(updater) is
\* queued, to be applied when the provider next renders.
AddToCart(p, q) ==
    /\ page = "store"
    /\ p \in env.catalog[slug]
    /\ WithinCap(addToCart(pendingCart, Line(p, q)))
    /\ pendingCart' = addToCart(pendingCart, Line(p, q))
    /\ hasPending' = TRUE
    /\ lastCall' = "addToCart"
    /\ UNCHANGED <<env, storage, page, slug, cart, effectPending, thrown,
                   checkoutVars, currencyVars, otherTab>>

RemoveFromCart(p) ==
    /\ page = "store"
    /\ pendingCart' = removeFromCart(pendingCart, p)
    /\ hasPending' = TRUE
    /\ lastCall' = "removeFromCart"
    /\ UNCHANGED <<env, storage, page, slug, cart, effectPending, thrown,
                   checkoutVars, currencyVars, otherTab>>

UpdateQuantity(p, q) ==
    /\ page = "store"
    /\ WithinCap(updateQuantity(pendingCart, p, q))
    /\ pendingCart' = updateQuantity(pendingCart, p, q)
    /\ hasPending' = TRUE
    /\ lastCall' = "updateQuantity"
    /\ UNCHANGED <<env, storage, page, slug, cart, effectPending, thrown,
                   checkoutVars, currencyVars, otherTab>>

ClearCart ==
    /\ page = "store"
    /\ pendingCart' = clearCart(pendingCart)
    /\ hasPending' = TRUE
    /\ lastCall' = "clearCart"
    /\ UNCHANGED <<env, storage, page, slug, cart, effectPending, thrown,
                   checkoutVars, currencyVars, otherTab>>

\* React re-renders the provider: the queued updates become the cart state.
\* The effects of the previous render have run by then.
Render ==
    /\ page = "store"
    /\ hasPending
    /\ ~effectPending
    /\ cart' = pendingCart
    /\ hasPending' = FALSE
    /\ effectPending' = TRUE
    /\ UNCHANGED <<env, storage, page, slug, pendingCart, thrown, lastCall,
                   checkoutVars, currencyVars, otherTab>>

\* The persistence effect of the last render runs.
PersistEffect(setItemThrows) ==
    /\ page = "store"
    /\ effectPending
    /\ storage' = IF setItemThrows THEN storage
                  ELSE [storage EXCEPT ![storageKey(slug)] = JSON_stringify(cart)]
    /\ effectPending' = FALSE
    /\ UNCHANGED <<env, page, slug, cart, pendingCart, hasPending, thrown, lastCall,
                   checkoutVars, currencyVars, otherTab>>

\* The route's slug changes while StorePage stays mounted (the same
\* <Route path="/:slug"> matches): the provider re-renders with the new prop.
SlugChange(s) ==
    /\ page = "store"
    /\ ~effectPending
    /\ s \in env.slugs \ {slug}
    /\ slug' = s
    /\ cart' = pendingCart
    /\ hasPending' = FALSE
    /\ effectPending' = TRUE
    /\ UNCHANGED <<env, storage, page, pendingCart, thrown, lastCall,
                   checkoutVars, currencyVars, otherTab>>

\* The provider goes away: navigation to a route without it, a reload or the
\* tab closing.  Queued updates and an effect that has not run go with it,
\* and so does the state of the page the provider encloses.
Unmount ==
    /\ page \in {"store", "error"}
    /\ page' = "none"
    /\ cart' = <<>>
    /\ pendingCart' = <<>>
    /\ hasPending' = FALSE
    /\ effectPending' = FALSE
    /\ thrown' = "none"
    /\ lastCall' = "none"
    /\ cartOpen' = FALSE
    /\ checkoutStep' = "cart"
    /\ orderNumber' = NoOrderNumber
    /\ submitting' = FALSE
    /\ selectedPaymentMethod' = NoMethod
    /\ searchParams' = NoQuery
    /\ order' = NoSubmission
    /\ verifying' = 0
    /\ succeeded' = {}
    /\ formValues' = DefaultValues
    /\ UNCHANGED <<env, storage, slug, verifyCalls, currencyVars, otherTab>>

\* A component that no CartProvider encloses calls useCart().
UseCartOutsideProvider ==
    /\ page = "none"
    /\ LET r == useCart(page = "store") IN
        /\ thrown' = r.error
        /\ page' = IF r.threw THEN "error" ELSE page
    /\ lastCall' = "useCart"
    /\ UNCHANGED <<env, storage, slug, cart, pendingCart, hasPending, effectPending,
                   checkoutVars, currencyVars, otherTab>>

Next ==
    \/ \E s \in {StoreA, StoreB, NoSlug}, t \in BOOLEAN : Mount(s, t)
    \/ \E p \in Products, q \in env.qtyArgs : AddToCart(p, q)
    \/ \E p \in Products : RemoveFromCart(p)
    \/ \E p \in Products, q \in env.qtyArgs : UpdateQuantity(p, q)
    \/ ClearCart
    \/ Render
    \/ \E t \in BOOLEAN : PersistEffect(t)
    \/ \E s \in {StoreA, StoreB} : SlugChange(s)
    \/ Unmount
    \/ UseCartOutsideProvider

Spec == Init /\ [][Next]_vars

\* ------------------------------------------------------------- the storefront
\* Largest number of verifyPayment calls a run makes.
MaxVerifyCalls == 2

\* The stores the page is run for.  accepts are the payment methods the
\* store's flags allow, queries the URLs the shopper opens the store with,
\* store the settings of the PublicStore (amounts in kobo; a
\* platformFeePercentage of 0 is one that is not set), product the products
\* its cart lines carry and forms what the shopper may type.
Checkout ==
    [slugs    |-> {StoreA},
     catalog  |-> [s \in {StoreA} |-> {Prod1}],
     qtyArgs  |-> {1},
     qtyFloor |-> 1,
     qtyCap   |-> 1,
     accepts  |-> PaymentMethods,
     queries  |-> Queries,
     store    |-> [deliveryAvailable |-> TRUE, deliveryFeeKobo |-> 50000,
                   minimumOrderKobo |-> 200000, platformFeePercentage |-> 0],
     product  |-> SmallPrices,
     forms    |-> {Delivery, [Pickup EXCEPT !.email = <<>>]}]
PricingStore ==
    [slugs    |-> {StoreA},
     catalog  |-> [s \in {StoreA} |-> Products],
     qtyArgs  |-> {1},
     qtyFloor |-> 1,
     qtyCap   |-> MaxQty + 1,
     accepts  |-> {},
     queries  |-> {NoQuery},
     store    |-> [deliveryAvailable |-> TRUE, deliveryFeeKobo |-> 50000,
                   minimumOrderKobo |-> 200000, platformFeePercentage |-> 5],
     product  |-> ExamplePrices,
     forms    |-> {DefaultValues, Delivery, [Pickup EXCEPT !.address = <<" ">>]}]
PickupOnly ==
    [slugs    |-> {StoreA},
     catalog  |-> [s \in {StoreA} |-> {Prod1}],
     qtyArgs  |-> {1},
     qtyFloor |-> 1,
     qtyCap   |-> 1,
     accepts  |-> {"CASH"},
     queries  |-> {NoQuery},
     store    |-> [deliveryAvailable |-> FALSE, deliveryFeeKobo |-> 50000,
                   minimumOrderKobo |-> 100000, platformFeePercentage |-> 0],
     product  |-> ExamplePrices,
     forms    |-> {DefaultValues, Pickup, Delivery}]
Storefronts == {Checkout, PricingStore, PickupOnly}

\* React has rendered every queued update and run the effects: the state a
\* click finds, since the updates of a click are rendered before the next.
Settled == ~hasPending /\ ~effectPending

CheckoutInit ==
    /\ env \in Storefronts
    /\ storage = [k \in Keys |-> Absent]
    /\ page = "none"
    /\ slug = NoSlug
    /\ cart = <<>>
    /\ pendingCart = <<>>
    /\ hasPending = FALSE
    /\ effectPending = FALSE
    /\ thrown = "none"
    /\ lastCall = "none"
    /\ cartOpen = FALSE
    /\ checkoutStep = "cart"
    /\ orderNumber = NoOrderNumber
    /\ submitting = FALSE
    /\ selectedPaymentMethod = NoMethod
    /\ searchParams = NoQuery
    /\ order = NoSubmission
    /\ verifying = 0
    /\ succeeded = {}
    /\ verifyCalls = 0
    /\ formValues = DefaultValues
    /\ currencyInput = <<>>
    /\ parsed = NotParsed
    /\ otherTab = NoTab

\* The browser loads /:slug with a query: a new document, in which StorePage
\* mounts the provider (the cart read from storage) and the page in its
\* initial state, and the payment callback effect runs: once, or twice under
\* StrictMode in a development build.
LoadStorefront(s, query, strict) ==
    /\ page \in {"none", "tracking", "gateway"}
    /\ s \in env.slugs
    /\ query \in env.queries
    /\ LET calls == IF callsVerifyPayment(query, s)
                    THEN (IF strict THEN 2 ELSE 1) ELSE 0 IN
        /\ verifyCalls + calls <= MaxVerifyCalls
        /\ verifyCalls' = verifyCalls + calls
        /\ verifying' = calls
    /\ LET v == initialCart(storage[storageKey(s)], FALSE) IN
        /\ cart' = v.items
        /\ pendingCart' = v.items
    /\ page' = "store"
    /\ slug' = s
    /\ hasPending' = FALSE
    /\ effectPending' = TRUE
    /\ thrown' = "none"
    /\ lastCall' = "none"
    /\ cartOpen' = FALSE
    /\ checkoutStep' = "cart"
    /\ orderNumber' = NoOrderNumber
    /\ submitting' = FALSE
    /\ selectedPaymentMethod' = NoMethod
    /\ searchParams' = query
    /\ order' = NoSubmission
    /\ succeeded' = {}
    /\ formValues' = DefaultValues
    /\ UNCHANGED <<env, storage, currencyVars, otherTab>>

\* handleAddToCart: the Add button of a product card.
HandleAddToCart(p) ==
    /\ page = "store"
    /\ Settled
    /\ p \in env.catalog[slug]
    /\ WithinCap(addToCart(pendingCart, Line(p, 1)))
    /\ pendingCart' = addToCart(pendingCart, Line(p, 1))
    /\ hasPending' = TRUE
    /\ lastCall' = "addToCart"
    /\ UNCHANGED <<env, storage, page, slug, cart, effectPending, thrown,
                   checkoutVars, currencyVars, otherTab>>

\* The Decrease and Increase buttons of the cart's line i.
ChangeQuantity(i, d) ==
    /\ page = "store"
    /\ Settled
    /\ cartOpen
    /\ checkoutStep = "cart"
    /\ i \in 1..Len(cart)
    /\ LET c == updateQuantity(pendingCart, cart[i].productId, cart[i].quantity + d) IN
        /\ WithinCap(c)
        /\ pendingCart' = c
    /\ hasPending' = TRUE
    /\ lastCall' = "updateQuantity"
    /\ UNCHANGED <<env, storage, page, slug, cart, effectPending, thrown,
                   checkoutVars, currencyVars, otherTab>>

\* The Remove button of the cart's line i.
RemoveItem(i) ==
    /\ page = "store"
    /\ Settled
    /\ cartOpen
    /\ checkoutStep = "cart"
    /\ i \in 1..Len(cart)
    /\ pendingCart' = removeFromCart(pendingCart, cart[i].productId)
    /\ hasPending' = TRUE
    /\ lastCall' = "removeFromCart"
    /\ UNCHANGED <<env, storage, page, slug, cart, effectPending, thrown,
                   checkoutVars, currencyVars, otherTab>>

\* The header's cart button.
OpenCart ==
    /\ page = "store"
    /\ Settled
    /\ ~cartOpen
    /\ cartOpen' = TRUE
    /\ UNCHANGED <<env, storage, page, slug, cart, pendingCart, hasPending,
                   effectPending, thrown, lastCall, checkoutStep, orderNumber,
                   submitting, selectedPaymentMethod, searchParams, order,
                   verifying, succeeded, verifyCalls, formValues,
                   currencyVars, otherTab>>

\* The panel is dismissed (Modal's onRequestClose).
RequestClose ==
    /\ page = "store"
    /\ Settled
    /\ cartOpen
    /\ LET r == onRequestClose(checkoutStep) IN
        /\ checkoutStep' = r.step
        /\ IF r.clear
           THEN /\ pendingCart' = clearCart(pendingCart)
                /\ hasPending' = TRUE
                /\ lastCall' = "clearCart"
           ELSE UNCHANGED <<pendingCart, hasPending, lastCall>>
    /\ cartOpen' = FALSE
    /\ UNCHANGED <<env, storage, page, slug, cart, effectPending, thrown,
                   orderNumber, submitting, selectedPaymentMethod,
                   searchParams, order, verifying, succeeded, verifyCalls, formValues,
                   currencyVars, otherTab>>

\* The primary button in the cart step (Modal's onRequestSubmit).
ContinueToCheckout ==
    /\ page = "store"
    /\ Settled
    /\ cartOpen
    /\ checkoutStep = "cart"
    /\ ~primaryButtonDisabled(checkoutStep, cart, selectedPaymentMethod, submitting)
    /\ checkoutStep' = "details"
    /\ UNCHANGED <<env, storage, page, slug, cart, pendingCart, hasPending,
                   effectPending, thrown, lastCall, cartOpen, orderNumber,
                   submitting, selectedPaymentMethod, searchParams, order,
                   verifying, succeeded, verifyCalls, formValues,
                   currencyVars, otherTab>>

\* The secondary button of the details step (Modal's onSecondarySubmit).
Back ==
    /\ page = "store"
    /\ Settled
    /\ cartOpen
    /\ checkoutStep = "details"
    /\ checkoutStep' = "cart"
    /\ UNCHANGED <<env, storage, page, slug, cart, pendingCart, hasPending,
                   effectPending, thrown, lastCall, cartOpen, orderNumber,
                   submitting, selectedPaymentMethod, searchParams, order,
                   verifying, succeeded, verifyCalls, formValues,
                   currencyVars, otherTab>>

\* A payment method button of the details step; the store's flags decide
\* which buttons there are.
SelectPaymentMethod(m) ==
    /\ page = "store"
    /\ Settled
    /\ cartOpen
    /\ checkoutStep = "details"
    /\ m \in env.accepts
    /\ selectedPaymentMethod' = m
    /\ UNCHANGED <<env, storage, page, slug, cart, pendingCart, hasPending,
                   effectPending, thrown, lastCall, cartOpen, checkoutStep,
                   orderNumber, submitting, searchParams, order, verifying,
                   succeeded, verifyCalls, formValues,
                   currencyVars, otherTab>>

\* The shopper types in the checkout form, which holds what is typed.  The
\* address and the delivery notes have their inputs only in a store with
\* delivery.
TypeDetails(values) ==
    /\ page = "store"
    /\ Settled
    /\ cartOpen
    /\ checkoutStep = "details"
    /\ values \in env.forms
    /\ formValues' =
            IF env.store.deliveryAvailable THEN values
            ELSE [values EXCEPT !.address = formValues.address,
                                !.deliveryNotes = formValues.deliveryNotes]
    /\ formValues' # formValues
    /\ UNCHANGED <<env, storage, page, slug, cart, pendingCart, hasPending,
                   effectPending, thrown, lastCall, cartOpen, checkoutStep,
                   orderNumber, submitting, selectedPaymentMethod,
                   searchParams, order, verifying, succeeded, verifyCalls,
                   currencyVars, otherTab>>

\* The primary button in the details step: handleFormSubmit validates the
\* form and, when it has no errors, runs handlePlaceOrder up to its first
\* await, the call of placeOrder with the cart as rendered.
PlaceOrderClick ==
    /\ page = "store"
    /\ Settled
    /\ cartOpen
    /\ checkoutStep = "details"
    /\ ~primaryButtonDisabled(checkoutStep, cart, selectedPaymentMethod, submitting)
    /\ IF checkoutSchema(formValues) = {} /\ slug # NoSlug
       THEN /\ submitting' = TRUE
            /\ order' = [pc |-> "placeOrder", items |-> cart,
                         method |-> selectedPaymentMethod,
                         formData |-> formValues,
                         data |-> NoOrderNumber, res |-> "none"]
       ELSE UNCHANGED <<submitting, order>>
    /\ UNCHANGED <<env, storage, page, slug, cart, pendingCart, hasPending,
                   effectPending, thrown, lastCall, cartOpen, checkoutStep,
                   orderNumber, selectedPaymentMethod, searchParams, verifying,
                   succeeded, verifyCalls, formValues,
                   currencyVars, otherTab>>

\* placeOrder is answered and handlePlaceOrder runs on, to its end or to the
\* call of initializePayment.  On a page that is no longer mounted the state
\* setters and clearCart do nothing.
PlaceOrderResponds(http, n) ==
    /\ order.pc = "placeOrder"
    /\ LET orderRes == publicClient(http)
           next == afterPlaceOrder(orderRes, order.method, order.formData)
           mounted == page = "store"
           data == IF orderRes.success /\ orderRes.data THEN n ELSE NoOrderNumber
           res == IF orderRes.success /\ orderRes.data THEN "placeOrder:success"
                  ELSE "placeOrder:failure"
       IN
        /\ succeeded' = IF orderRes.success THEN succeeded \cup {"placeOrder"}
                        ELSE succeeded
        /\ orderNumber' = IF mounted /\ next # "stay" THEN n ELSE orderNumber
        /\ order' = IF next = "initializePayment"
                    THEN [order EXCEPT !.pc = "initializePayment",
                                       !.data = data, !.res = res]
                    ELSE [NoSubmission EXCEPT !.data = data, !.res = res]
        /\ submitting' = IF next = "initializePayment" THEN submitting ELSE FALSE
        /\ IF next = "confirm" /\ mounted
           THEN /\ checkoutStep' = "confirmation"
                /\ pendingCart' = clearCart(pendingCart)
                /\ hasPending' = TRUE
                /\ lastCall' = "clearCart"
           ELSE UNCHANGED <<checkoutStep, pendingCart, hasPending, lastCall>>
    /\ UNCHANGED <<env, storage, page, slug, cart, effectPending, thrown,
                   cartOpen, selectedPaymentMethod, searchParams, verifying,
                   verifyCalls, formValues,
                   currencyVars, otherTab>>

\* initializePayment is answered and handlePlaceOrder runs to its end: the
\* browser leaves for the authorization URL, or the confirmation is shown.
InitializePaymentResponds(http) ==
    /\ order.pc = "initializePayment"
    /\ LET paymentRes == publicClient(http)
           r == afterInitializePayment(paymentRes)
           mounted == page = "store"
       IN
        /\ IF r.confirm /\ mounted
           THEN /\ checkoutStep' = "confirmation"
                /\ pendingCart' = clearCart(pendingCart)
                /\ hasPending' = TRUE
                /\ lastCall' = "clearCart"
           ELSE UNCHANGED <<checkoutStep, pendingCart, hasPending, lastCall>>
        /\ page' = IF r.redirect THEN "gateway" ELSE page
        /\ verifying' = IF r.redirect THEN 0 ELSE verifying
        /\ order' = [NoSubmission EXCEPT
                        !.data = order.data,
                        !.res = IF paymentRes.success /\ paymentRes.data
                                THEN "initializePayment:success"
                                ELSE "initializePayment:failure"]
    /\ submitting' = FALSE
    /\ UNCHANGED <<env, storage, slug, cart, effectPending, thrown, cartOpen,
                   orderNumber, selectedPaymentMethod, searchParams, succeeded,
                   verifyCalls, formValues,
                   currencyVars, otherTab>>

\* verifyPayment is answered.  On success the effect calls clearCart() and
\* navigate(): the route changes to the order tracking page, which no
\* provider encloses.  React first runs the effect of the render it has
\* committed; whether the provider renders the cleared cart and persists it
\* before the route change unmounts it depends on the lane the router gives
\* its update.
VerifyPaymentResponds(http, persisted) ==
    /\ verifying > 0
    /\ verifying' = verifying - 1
    /\ LET res == publicClient(http) IN
        IF res.success
        THEN /\ succeeded' = succeeded \cup {"verifyPayment"}
             /\ page' = "tracking"
             /\ IF page = "store"
                THEN /\ storage' =
                          IF persisted
                          THEN [storage EXCEPT ![storageKey(slug)] =
                                    JSON_stringify(clearCart(pendingCart))]
                          ELSE IF effectPending
                          THEN [storage EXCEPT ![storageKey(slug)] =
                                    JSON_stringify(cart)]
                          ELSE storage
                     /\ lastCall' = "clearCart"
                     /\ cart' = <<>>
                     /\ pendingCart' = <<>>
                     /\ hasPending' = FALSE
                     /\ effectPending' = FALSE
                     /\ cartOpen' = FALSE
                     /\ checkoutStep' = "cart"
                     /\ orderNumber' = NoOrderNumber
                     /\ submitting' = FALSE
                     /\ selectedPaymentMethod' = NoMethod
                     /\ searchParams' = NoQuery
                     /\ formValues' = DefaultValues
                ELSE UNCHANGED <<storage, lastCall, cart, pendingCart, hasPending,
                                 effectPending, cartOpen, checkoutStep,
                                 orderNumber, submitting, selectedPaymentMethod,
                                 searchParams, formValues>>
        ELSE UNCHANGED <<succeeded, page, storage, lastCall, cart, pendingCart,
                         hasPending, effectPending, cartOpen, checkoutStep,
                         orderNumber, submitting, selectedPaymentMethod,
                         searchParams, formValues>>
    /\ UNCHANGED <<env, slug, thrown, order, verifyCalls, currencyVars, otherTab>>

\* The confirmation's Track Your Order link: the route changes to the order
\* tracking page.  The calls in flight stay in flight.
TrackOrder ==
    /\ page = "store"
    /\ Settled
    /\ cartOpen
    /\ checkoutStep = "confirmation"
    /\ orderNumber # NoOrderNumber
    /\ page' = "tracking"
    /\ cart' = <<>>
    /\ pendingCart' = <<>>
    /\ cartOpen' = FALSE
    /\ checkoutStep' = "cart"
    /\ orderNumber' = NoOrderNumber
    /\ submitting' = FALSE
    /\ selectedPaymentMethod' = NoMethod
    /\ searchParams' = NoQuery
    /\ formValues' = DefaultValues
    /\ UNCHANGED <<env, storage, slug, hasPending, effectPending, thrown,
                   lastCall, order, verifying, succeeded, verifyCalls,
                   currencyVars, otherTab>>

\* A product card's link: the route changes to the product page.  The calls
\* in flight stay in flight.
OpenProduct ==
    /\ page = "store"
    /\ Settled
    /\ page' = "none"
    /\ cart' = <<>>
    /\ pendingCart' = <<>>
    /\ cartOpen' = FALSE
    /\ checkoutStep' = "cart"
    /\ orderNumber' = NoOrderNumber
    /\ submitting' = FALSE
    /\ selectedPaymentMethod' = NoMethod
    /\ searchParams' = NoQuery
    /\ formValues' = DefaultValues
    /\ UNCHANGED <<env, storage, slug, hasPending, effectPending, thrown,
                   lastCall, order, verifying, succeeded, verifyCalls,
                   currencyVars, otherTab>>

CheckoutNext ==
    \/ \E s \in {StoreA}, query \in Queries, strict \in BOOLEAN :
            LoadStorefront(s, query, strict)
    \/ \E p \in Products : HandleAddToCart(p)
    \/ \E i \in 1..Len(cart), d \in {0 - 1, 1} : ChangeQuantity(i, d)
    \/ \E i \in 1..Len(cart) : RemoveItem(i)
    \/ OpenCart
    \/ RequestClose
    \/ ContinueToCheckout
    \/ Back
    \/ \E m \in PaymentMethods : SelectPaymentMethod(m)
    \/ \E values \in FormInputs : TypeDetails(values)
    \/ PlaceOrderClick
    \/ \E http \in HttpOutcomes, n \in OrderNumbers : PlaceOrderResponds(http, n)
    \/ \E http \in HttpOutcomes : InitializePaymentResponds(http)
    \/ \E http \in HttpOutcomes, persisted \in BOOLEAN :
            VerifyPaymentResponds(http, persisted)
    \/ TrackOrder
    \/ OpenProduct
    \/ Render
    \/ \E t \in BOOLEAN : PersistEffect(t)
    \/ Unmount

CheckoutSpec == CheckoutInit /\ [][CheckoutNext]_vars

\* ------------------------------------------------------------- properties
Unique(c) == \A i, j \in 1..Len(c) : c[i].productId = c[j].productId => i = j

\* The quantity the cart holds of product p: 0 when p has no line.
QuantityOf(c, p) ==
    IF SelectIdx(c, p) = {} THEN 0 ELSE c[CHOOSE i \in SelectIdx(c, p) : TRUE].quantity

Pairs(c) == {<<c[i].productId, c[i].quantity>> : i \in 1..Len(c)}

RECURSIVE SumOver(_, _)
SumOver(c, idx) ==
    IF idx = {} THEN 0
    ELSE LET i == CHOOSE x \in idx : TRUE IN c[i].quantity + SumOver(c, idx \ {i})

Mutations == {"addToCart", "removeFromCart", "updateQuantity", "clearCart"}

\* C1: whatever the cart, addToCart(p, q1) followed by addToCart(p, q2) leaves
\* exactly one line for p, its quantity is what p had before plus q1 + q2, and
\* the second add does not make the cart longer.
C1_AddMergesByProductId ==
    \A p \in Products, q1, q2 \in env.qtyArgs :
        LET c0 == pendingCart
            c1 == addToCart(c0, Line(p, q1))
            c2 == addToCart(c1, Line(p, q2))
        IN  /\ Cardinality(SelectIdx(c2, p)) = 1
            /\ QuantityOf(c2, p) = QuantityOf(c0, p) + q1 + q2
            /\ Len(c2) = Len(c1)

\* The rendered cart holds one line of quantity 1; addToCart calls made since
\* leave one line of quantity 2, waiting to be rendered.
C1_Witness ==
    /\ page = "store"
    /\ lastCall = "addToCart"
    /\ hasPending
    /\ cart = <<Line(Prod1, 1)>>
    /\ pendingCart = <<Line(Prod1, 2)>>

\* C2: the cart, rendered or pending, and every persisted cart hold at most
\* one line per productId.
C2_OneLinePerProduct ==
    /\ Unique(cart)
    /\ Unique(pendingCart)
    /\ \A k \in Keys : Unique(storage[k].items)

\* A cart of two products, one of them added more than once.
C2_Witness ==
    /\ page = "store"
    /\ lastCall = "addToCart"
    /\ ~hasPending
    /\ Len(cart) = 2
    /\ \E i \in 1..Len(cart) : cart[i].quantity = 2

\* C3: every line of the cart, rendered or pending, has a quantity of at
\* least 1, whatever quantities the calls passed.
C3_QuantityAtLeastOne ==
    /\ \A i \in 1..Len(cart) : cart[i].quantity >= 1
    /\ \A i \in 1..Len(pendingCart) : pendingCart[i].quantity >= 1

\* C4: whatever the cart, updateQuantity(id, n) with n <= 0 gives the cart
\* removeFromCart(id) gives.
C4_UpdateToZeroIsRemove ==
    \A id \in Products, n \in MinQty..0 :
        updateQuantity(pendingCart, id, n) = removeFromCart(pendingCart, id)

\* An updateQuantity call has taken the first of two rendered lines away.
C4_Witness ==
    /\ page = "store"
    /\ lastCall = "updateQuantity"
    /\ hasPending
    /\ cart = <<Line(Prod1, 2), Line(Prod2, 1)>>
    /\ pendingCart = <<Line(Prod2, 1)>>

\* C5: getCartItemCount() is the sum of the quantities of the cart's lines,
\* and it is 0 exactly when the cart has no line.
C5_CountIsSumZeroIffEmpty ==
    /\ getCartItemCount(cart) = SumOver(cart, 1..Len(cart))
    /\ (getCartItemCount(cart) = 0) <=> (cart = <<>>)

\* C6: once a mutation has returned, the cart persisted under the provider's
\* key is the in-memory cart.
C6_PersistedWithinMutation ==
    (page = "store" /\ lastCall \in Mutations)
        => storage[storageKey(slug)] = JSON_stringify(pendingCart)

\* C7: when the provider goes away after a sequence of mutations, a cart
\* re-initialised from the same key has the (productId, quantity) pairs the
\* in-memory cart had after the last call.
C7_RoundTrip ==
    [][(page = "store" /\ page' = "none"
            /\ lastCall \in {"addToCart", "updateQuantity", "removeFromCart"})
        => LET v == initialCart(storage'[storageKey(slug)], FALSE)
           IN  v.isArray /\ Pairs(v.items) = Pairs(pendingCart)]_vars

\* C8: the cart persisted for a store, and the cart a session on that store
\* sees, hold only items added on that store (products of its catalog).
C8_StoreIsolation ==
    /\ \A s \in env.slugs : \A i \in 1..Len(storage[storageKey(s)].items) :
           storage[storageKey(s)].items[i].productId \in env.catalog[s]
    /\ page = "store" =>
           \A i \in 1..Len(cart) : cart[i].productId \in env.catalog[slug]

\* C9: initialising the cart never raises, and from a key whose text is not
\* a serialised list the cart starts empty.
C9_InitNeverRaises ==
    /\ thrown # "TypeError"
    /\ (page = "store" /\ lastCall = "none" /\ ~hasPending
            /\ storage[storageKey(slug)].kind # "array") => cart = <<>>

\* C10: a useCart call that no provider encloses raises the context error,
\* and reads, changes and persists no cart.
C10_UseCartOutsideFailsLoudly ==
    [][lastCall' = "useCart"
        => /\ page = "none"
           /\ thrown' = ContextError
           /\ page' = "error"
           /\ UNCHANGED <<storage, cart, pendingCart, hasPending, effectPending>>]_vars

\* useCart was called outside a provider and the error reached the boundary.
C10_Witness ==
    /\ lastCall = "useCart"
    /\ thrown = ContextError
    /\ page = "error"

\* ------------------------------------------------------------- checkout
\* The step in which a run of handlePlaceOrder calls placeOrder.
CallsPlaceOrder == order.pc = "idle" /\ order'.pc = "placeOrder"

\* C11: placeOrder is called only from the details step, with at least one
\* line in the cart, a payment method selected and a form the schema accepts
\* (name, phone and email among its fields); the call carries those items,
\* that method and those details.
C11_PlaceOrderIsGated ==
    [][CallsPlaceOrder =>
        /\ checkoutStep = "details"
        /\ Len(cart) > 0
        /\ selectedPaymentMethod \in PaymentMethods
        /\ ~submitting
        /\ order'.items = cart
        /\ order'.items # <<>>
        /\ order'.method = selectedPaymentMethod
        /\ nameIsValid(order'.formData.name)
        /\ phoneIsValid(order'.formData.phone)
        /\ emailIsValid(order'.formData.email)
      ]_vars

\* An order is on its way to the server: one line, cash, valid details.
C11_Witness ==
    /\ page = "store"
    /\ checkoutStep = "details"
    /\ submitting
    /\ order.pc = "placeOrder"
    /\ order.items = <<Line(Prod1, 1)>>
    /\ order.method = "CASH"
    /\ order.formData = Pickup

\* C12: the step goes from cart to details only with a cart that has a line
\* and an item count above 0.
C12_AdvanceNeedsItems ==
    [][(checkoutStep = "cart" /\ checkoutStep' = "details") =>
        /\ Len(cart) >= 1
        /\ getCartItemCount(cart) > 0
      ]_vars

\* The shopper has emptied the cart in the open panel, which stays in the
\* cart step.
C12_Witness ==
    /\ page = "store"
    /\ cartOpen
    /\ checkoutStep = "cart"
    /\ Settled
    /\ lastCall = "removeFromCart"
    /\ cart = <<>>
    /\ getCartItemCount(cart) = 0

\* The step in which handlePlaceOrder, on the mounted page, has its order
\* accepted and does not redirect: placeOrder succeeds for an order paid in
\* cash or by bank transfer, or initializePayment comes back without data for
\* an order paid online.
SucceedsWithoutRedirect ==
    /\ page = "store"
    /\ \/ /\ order.pc = "placeOrder"
          /\ order.method \in {"CASH", "BANK_TRANSFER"}
          /\ order'.res = "placeOrder:success"
       \/ /\ order.pc = "initializePayment"
          /\ order.method = "ONLINE"
          /\ order'.res = "initializePayment:failure"

\* The step in which the browser leaves for the authorization URL.
Redirects == page # "gateway" /\ page' = "gateway"

ClearsForOnlineOrder ==
    /\ order.pc = "initializePayment"
    /\ order'.pc = "idle"
    /\ lastCall' = "clearCart"
    /\ checkoutStep' = "confirmation"

\* C14 as stated: the redirect comes after placeOrder and initializePayment
\* have succeeded for an online order with a valid email and it leaves the
\* cart, rendered, queued and stored, as it was; and the cart of an online
\* order is cleared only once verifyPayment has succeeded.
C14_OnlineClearsOnlyWhenVerified ==
    [][/\ Redirects =>
            /\ order.method = "ONLINE"
            /\ emailIsValid(order.formData.email)
            /\ "placeOrder" \in succeeded
            /\ order'.res = "initializePayment:success"
            /\ UNCHANGED <<storage, cart, pendingCart, hasPending, lastCall>>
       /\ ClearsForOnlineOrder => "verifyPayment" \in succeeded'
      ]_vars

\* C14, amended: the redirect is as stated; handlePlaceOrder clears the cart
\* of an online order only when initializePayment came back without data.
C14_RedirectLeavesCart ==
    [][/\ Redirects =>
            /\ order.method = "ONLINE"
            /\ emailIsValid(order.formData.email)
            /\ "placeOrder" \in succeeded
            /\ order'.res = "initializePayment:success"
            /\ UNCHANGED <<storage, cart, pendingCart, hasPending, lastCall>>
       /\ ClearsForOnlineOrder => order'.res = "initializePayment:failure"
      ]_vars

\* The browser has left for the payment page; the cart it left behind, in
\* memory and in storage, still holds the line that was ordered.
C14_Witness ==
    /\ page = "gateway"
    /\ order.res = "initializePayment:success"
    /\ cart = <<Line(Prod1, 1)>>
    /\ pendingCart = cart
    /\ storage[storageKey(slug)] = JSON_stringify(cart)

\* The step in which a document loads the storefront page.
Loads == page # "store" /\ page' = "store"

\* The step in which the mounted page gets its first successful answer to
\* verifyPayment.
Verifies ==
    /\ page = "store"
    /\ "verifyPayment" \notin succeeded
    /\ "verifyPayment" \in succeeded'

\* C15: a load calls verifyPayment exactly when the URL carries both the
\* reference and the order; and when the call succeeds the shopper is on the
\* order tracking page and the cart stored for the store, loaded again, is
\* empty.
C15_CallbackClearsStoredCart ==
    [][/\ Loads =>
            (verifying' > 0 <=>
                (searchParams'.reference # "" /\ searchParams'.order # ""))
       /\ Verifies =>
            /\ page' = "tracking"
            /\ initialCart(storage'[storageKey(slug)], FALSE).items = <<>>
      ]_vars

\* C16: over all loads of the page, verifyPayment is called at most once for
\* the order and reference the URL carries.
C16_VerifiesAtMostOnce == verifyCalls <= 1

\* C17: whenever the last call on the cart is a clearCart of the checkout
\* flow, the server has answered placeOrder or verifyPayment with success
\* since the page loaded; without such an answer the cart is not cleared.
C17_NeverClearedSpeculatively == lastCall = "clearCart" => succeeded # {}

C17_Witness ==
    /\ page = "store"
    /\ lastCall = "clearCart"
    /\ succeeded = {"placeOrder"}
    /\ checkoutStep = "confirmation"
    /\ cart = <<>>
    /\ Settled

\* The step in which a submission on the mounted page ends with placeOrder
\* answered unsuccessfully.
PlaceOrderFails ==
    /\ page = "store"
    /\ order.pc = "placeOrder"
    /\ order'.res = "placeOrder:failure"

Dismisses == page = "store" /\ page' = "store" /\ cartOpen /\ ~cartOpen'

\* C19: dismissing the panel in the confirmation step sets the step to cart
\* and leaves the cart empty; dismissing it in any other step leaves the step
\* and the cart (rendered, queued and stored) as they were.
C19_DismissResetsOnlyConfirmation ==
    [][Dismisses =>
        IF checkoutStep = "confirmation"
        THEN checkoutStep' = "cart" /\ pendingCart' = <<>>
        ELSE UNCHANGED <<checkoutStep, cart, pendingCart, storage>>]_vars

C19_Witness ==
    /\ page = "store"
    /\ ~cartOpen
    /\ checkoutStep = "cart"
    /\ lastCall = "clearCart"
    /\ succeeded = {"placeOrder"}
    /\ orderNumber \in OrderNumbers
    /\ cart = <<>>
    /\ Settled

\* The sum of the values of f over the indices of idx.
RECURSIVE SumOf(_, _)
SumOf(f, idx) ==
    IF idx = {} THEN 0
    ELSE LET i == CHOOSE x \in idx : TRUE IN f[i] + SumOf(f, idx \ {i})

\* The cart of the example: two of X and three of Y.
ExampleCart == <<Line(Prod1, 2), Line(Prod2, 3)>>

\* C20: for the cart the page renders and every table of products, the
\* subtotal is the sum over the lines of unit price in kobo times quantity;
\* the VAT is the sum, over exactly the lines whose product is taxable with a
\* positive rate, of line subtotal times rate over 100; the total is their
\* sum; and the cart of the example shows 3500, 150 and 3650 naira.
C20_PricingIsCorrect ==
    /\ \A product \in PriceTables :
        LET lines == 1..Len(cart)
            lineSubtotal == [i \in lines |->
                product[cart[i].productId].unitPrice * 100 * cart[i].quantity]
            taxed == {i \in lines : /\ product[cart[i].productId].taxable
                                    /\ product[cart[i].productId].vatRate > 0}
            lineVat == [i \in lines |->
                lineSubtotal[i] * product[cart[i].productId].vatRate]
        IN  /\ cartSubtotal(cart, product) = Kobo(SumOf(lineSubtotal, lines))
            /\ cartVat(cart, product) = SumOf(lineVat, taxed)
            /\ cartTotal(cart, product) =
                    cartSubtotal(cart, product) + cartVat(cart, product)
    /\ cart = ExampleCart =>
        /\ cartSubtotal(cart, ExamplePrices) = Kobo(3500 * 100)
        /\ cartVat(cart, ExamplePrices) = Kobo(150 * 100)
        /\ cartTotal(cart, ExamplePrices) = Kobo(3650 * 100)

C20_Witness ==
    /\ page = "store"
    /\ cart = ExampleCart
    /\ cartVat(cart, ExamplePrices) > 0
    /\ Settled

\* ------------------------------------------------------------- the summary
\* The delivery fee of the pricing rules: the store's flat fee when the
\* shopper has given an address and the store delivers, else nothing.
DeliveryFee ==
    IF formValues.address # <<>> /\ env.store.deliveryAvailable
    THEN Kobo(env.store.deliveryFeeKobo)
    ELSE 0

\* C21: the total the checkout summary shows is subtotal plus VAT plus the
\* delivery fee, the store's flat fee exactly when an address is given and
\* the store delivers; the payment method selected adds nothing to it.
C21_GrandTotal ==
    page = "store" =>
        summaryTotal(cart, env.product, formValues.address, env.store) =
            cartSubtotal(cart, env.product) + cartVat(cart, env.product)
                + DeliveryFee

\* The summary of an online order to be delivered.
C21_Witness ==
    /\ page = "store"
    /\ checkoutStep = "details"
    /\ cart # <<>>
    /\ selectedPaymentMethod = "ONLINE"
    /\ formValues.address # <<>>
    /\ DeliveryFee = Kobo(50000)
    /\ summaryTotal(cart, env.product, formValues.address, env.store) =
            cartTotal(cart, env.product) + Kobo(50000)

\* C22: the selected payment method is none or one of the three methods, one
\* the store's flags accept; and an order that is being submitted carries a
\* method the store accepts, never none.
C22_PaymentMethodGated ==
    /\ selectedPaymentMethod \in {NoMethod} \cup (PaymentMethods \cap env.accepts)
    /\ order.pc # "idle" =>
        /\ order.method # NoMethod
        /\ order.method \in PaymentMethods \cap env.accepts

\* A cash order under way in a store that accepts cash alone.
C22_Witness ==
    /\ env.accepts = {"CASH"}
    /\ page = "store"
    /\ order.pc = "placeOrder"
    /\ order.method = "CASH"
    /\ selectedPaymentMethod = "CASH"

\* ------------------------------------------------------------- the amount field
\* Longest text of an amount field that is typed.
MaxText == 4

\* The currency symbol of the naira (U+20A6), written N here.
NairaSign == "N"

\* The characters that are typed into an amount field.
AmountChars == {"0", "1", "5", ",", ".", " ", "-", "a", NairaSign}

\* A number with a fraction is held exactly, as a multiple of 1 / Scale; a
\* typed text has at most MaxText - 1 digits after its point.
Scale == 10 ^ (MaxText - 1)

DigitValue(ch) == CHOOSE n \in 0..9 : <<"0", "1", "2", "3", "4", "5", "6", "7", "8", "9">>[n + 1] = ch

\* The digits a text starts with.
RECURSIVE takeDigits(_)
takeDigits(text) ==
    IF text # <<>> /\ Head(text) \in Digits
    THEN <<Head(text)>> \o takeDigits(Tail(text))
    ELSE <<>>

\* The whole number a text of digits reads, 0 for no digits.
RECURSIVE wholeOf(_)
wholeOf(digits) ==
    IF digits = <<>> THEN 0
    ELSE wholeOf(SubSeq(digits, 1, Len(digits) - 1)) * 10
            + DigitValue(digits[Len(digits)])

\* The fraction a text of digits after the point reads, in 1 / Scale.
RECURSIVE fractionOf(_, _)
fractionOf(digits, unit) ==
    IF digits = <<>> THEN 0
    ELSE DigitValue(Head(digits)) * (unit \div 10)
            + fractionOf(Tail(digits), unit \div 10)

\* parseFloat: the number the longest prefix of the text spells (a sign, then
\* digits with at most one point among them), NaN when no prefix spells one.
parseFloat(text) ==
    LET negative == text # <<>> /\ Head(text) = "-"
        body == IF negative THEN Tail(text) ELSE text
        int == takeDigits(body)
        rest == SubSeq(body, Len(int) + 1, Len(body))
        frac == IF rest # <<>> /\ Head(rest) = "." THEN takeDigits(Tail(rest))
                ELSE <<>>
        magnitude == wholeOf(int) * Scale + fractionOf(frac, Scale)
    IN  IF int = <<>> /\ frac = <<>>
        THEN [isNaN |-> TRUE, value |-> 0]
        ELSE [isNaN |-> FALSE,
              value |-> IF negative THEN 0 - magnitude ELSE magnitude]

\* value.replace(/[,\s]/g, '')
stripSeparators(value) == SelectSeq(value, LAMBDA ch : ch \notin {",", " "})

parseCurrencyInput(value) ==
    LET parsedFloat == parseFloat(stripSeparators(value)) IN
    IF parsedFloat.isNaN THEN 0 ELSE parsedFloat.value

\* The digits of a whole number.
RECURSIVE digitsOf(_)
digitsOf(n) ==
    LET last == <<<<"0", "1", "2", "3", "4", "5", "6", "7", "8", "9">>[(n % 10) + 1]>> IN
    IF n < 10 THEN last ELSE digitsOf(n \div 10) \o last

\* Digits in groups of three from the right, with commas between them.
RECURSIVE grouped(_)
grouped(digits) ==
    IF Len(digits) <= 3 THEN digits
    ELSE grouped(SubSeq(digits, 1, Len(digits) - 3)) \o <<",">>
            \o SubSeq(digits, Len(digits) - 2, Len(digits))

\* formatCurrency of a whole amount of naira: the symbol and the grouped
\* digits, with no fraction digits.
formatCurrency(amount) == <<NairaSign>> \o grouped(digitsOf(amount))

\* The amounts that are formatted.
Amounts == {0, 500, 1500, 1500000}

\* The cart store and the page, which an amount field does not touch.
storeVars == <<env, storage, page, slug, cart, pendingCart, hasPending,
               effectPending, thrown, lastCall, checkoutVars, otherTab>>

CurrencyInit ==
    /\ CheckoutInit
    /\ env = Checkout

\* A character is typed at the end of the field.
TypeAmount(ch) ==
    /\ Len(currencyInput) < MaxText
    /\ currencyInput' = Append(currencyInput, ch)
    /\ parsed' = NotParsed
    /\ UNCHANGED storeVars

\* The field is given a formatted amount.
FormatAmount(amount) ==
    /\ currencyInput' = formatCurrency(amount)
    /\ currencyInput' # currencyInput
    /\ parsed' = NotParsed
    /\ UNCHANGED storeVars

\* The field is emptied.
ClearAmount ==
    /\ currencyInput # <<>>
    /\ currencyInput' = <<>>
    /\ parsed' = NotParsed
    /\ UNCHANGED storeVars

\* The text of the field is parsed.
ParseCurrencyInput ==
    /\ ~parsed.called
    /\ parsed' = [called |-> TRUE, value |-> parseCurrencyInput(currencyInput)]
    /\ UNCHANGED <<storeVars, currencyInput>>

CurrencyNext ==
    \/ \E ch \in AmountChars : TypeAmount(ch)
    \/ \E amount \in Amounts : FormatAmount(amount)
    \/ ClearAmount
    \/ ParseCurrencyInput

CurrencySpec == CurrencyInit /\ [][CurrencyNext]_vars

\* A text is a number: a sign or none, then digits with at most one point
\* among them, and at least one digit.
IsNumber(text) ==
    LET body == IF text # <<>> /\ Head(text) = "-" THEN Tail(text) ELSE text IN
    /\ \A i \in 1..Len(body) : body[i] \in Digits \cup {"."}
    /\ Cardinality({i \in 1..Len(body) : body[i] = "."}) <= 1
    /\ \E i \in 1..Len(body) : body[i] \in Digits

\* The number such a text reads, in 1 / Scale.
NumberOf(text) ==
    LET negative == Head(text) = "-"
        body == IF negative THEN Tail(text) ELSE text
        points == {i \in 1..Len(body) : body[i] = "."}
        point == IF points = {} THEN Len(body) + 1 ELSE CHOOSE i \in points : TRUE
        magnitude == wholeOf(SubSeq(body, 1, point - 1)) * Scale
                        + fractionOf(SubSeq(body, point + 1, Len(body)), Scale)
    IN  IF negative THEN 0 - magnitude ELSE magnitude

\* C23: parseCurrencyInput returns the number the text reads once commas and
\* blanks are taken out of it, when what is left is a number, and 0 when
\* what is left is empty or is no number: letters or a currency symbol
\* before or after the digits give 0.
C23_ParsesNumbersElseZero ==
    parsed.called =>
        LET left == stripSeparators(currencyInput) IN
        IF IsNumber(left)
        THEN parsed.value = NumberOf(left)
        ELSE parsed.value = 0

\* ------------------------------------------------------------- the session
\* The edges of the checkout steps.
StepEdges ==
    {<<"cart", "details">>, <<"details", "cart">>,
     <<"details", "confirmation">>, <<"confirmation", "cart">>}

\* C24: while the page stays mounted the step changes only along the edges
\* cart to details, details to cart, details to confirmation and
\* confirmation to cart; the browser leaves for the payment page from the
\* details step; and the step is never payment.
C24_StepsFollowEdges ==
    [][/\ (page = "store" /\ page' = "store" /\ checkoutStep' # checkoutStep) =>
            <<checkoutStep, checkoutStep'>> \in StepEdges
       /\ Redirects => checkoutStep = "details"
       /\ checkoutStep' # "payment"
      ]_vars

\* A call the page made is answered after the page is gone.
LateResponse ==
    /\ page # "store"
    /\ page' # "store"
    /\ order' # order \/ verifying' < verifying

\* C25: a response that arrives after the page is gone is discarded: it
\* clears no cart, takes the browser nowhere and changes nothing else of
\* what the shopper has.
C25_LateResponseDiscarded ==
    [][LateResponse =>
            UNCHANGED <<page, storage, slug, cart, pendingCart, hasPending,
                        effectPending, cartOpen, checkoutStep, orderNumber,
                        submitting, selectedPaymentMethod, searchParams,
                        formValues>>]_vars

\* C26: dismissing the panel in the confirmation step starts a new session:
\* the step is cart, the cart is empty, no payment method is selected and no
\* order number or customer details are kept, so that the next order needs
\* its payment method selected anew.
C26_DismissStartsNewSession ==
    [][(Dismisses /\ checkoutStep = "confirmation") =>
            /\ checkoutStep' = "cart"
            /\ pendingCart' = <<>>
            /\ selectedPaymentMethod' = NoMethod
            /\ orderNumber' = NoOrderNumber
            /\ formValues' = DefaultValues]_vars

\* C27: with unit prices of whole kobo and the store's VAT rate, the
\* subtotal, the VAT and the total of the summary are whole numbers of kobo.
C27_AmountsAreWholeKobo ==
    page = "store" =>
        /\ IsWholeKobo(cartSubtotal(cart, env.product))
        /\ IsWholeKobo(cartVat(cart, env.product))
        /\ IsWholeKobo(summaryTotal(cart, env.product, formValues.address,
                                    env.store))

\* C28: the minimum order only warns.  Whatever the cart's total, the cart
\* step can be left for the details exactly when the cart has a line and
\* nothing is being submitted, and the order is submitted exactly when a
\* payment method is selected, nothing is being submitted and the details
\* are valid.
C28_MinimumOrderIsAdvisory ==
    (page = "store" /\ Settled /\ cartOpen) =>
        /\ checkoutStep = "cart" =>
                (ENABLED ContinueToCheckout <=> (cart # <<>> /\ ~submitting))
        /\ checkoutStep = "details" =>
                (ENABLED (PlaceOrderClick /\ submitting') <=>
                    /\ selectedPaymentMethod # NoMethod
                    /\ ~submitting
                    /\ checkoutSchema(formValues) = {})

C28_Witness ==
    /\ page = "store"
    /\ order.pc = "placeOrder"
    /\ order.items # <<>>
    /\ order.items = cart
    /\ belowMinimumOrder(order.items, env.product, env.store)

\* ------------------------------------------------------------- two tabs
\* Two tabs of one browser show the same store.  Each has its own provider
\* and they share localStorage; the variables of the provider are those of
\* the tab that takes the next step, otherTab is the provider of the other.
TwoTabs ==
    [slugs    |-> {StoreA},
     catalog  |-> [s \in {StoreA} |-> Products],
     qtyArgs  |-> {1},
     qtyFloor |-> 1,
     qtyCap   |-> 1]

TabsInit ==
    /\ env = TwoTabs
    /\ storage = [k \in Keys |-> Absent]
    /\ page = "none"
    /\ slug = NoSlug
    /\ cart = <<>>
    /\ pendingCart = <<>>
    /\ hasPending = FALSE
    /\ effectPending = FALSE
    /\ thrown = "none"
    /\ lastCall = "none"
    /\ cartOpen = FALSE
    /\ checkoutStep = "cart"
    /\ orderNumber = NoOrderNumber
    /\ submitting = FALSE
    /\ selectedPaymentMethod = NoMethod
    /\ searchParams = NoQuery
    /\ order = NoSubmission
    /\ verifying = 0
    /\ succeeded = {}
    /\ verifyCalls = 0
    /\ formValues = DefaultValues
    /\ currencyInput = <<>>
    /\ parsed = NotParsed
    /\ otherTab = NoTab

\* The provider of the tab whose turn it is.
ThisTab ==
    [page |-> page, slug |-> slug, cart |-> cart, pendingCart |-> pendingCart,
     hasPending |-> hasPending, effectPending |-> effectPending,
     thrown |-> thrown, lastCall |-> lastCall]

\* The turn passes to the other tab.  Nothing of either provider changes: the
\* provider has no listener for the storage event.
SwitchTab ==
    /\ otherTab # ThisTab
    /\ otherTab' = ThisTab
    /\ page' = otherTab.page
    /\ slug' = otherTab.slug
    /\ cart' = otherTab.cart
    /\ pendingCart' = otherTab.pendingCart
    /\ hasPending' = otherTab.hasPending
    /\ effectPending' = otherTab.effectPending
    /\ thrown' = otherTab.thrown
    /\ lastCall' = otherTab.lastCall
    /\ UNCHANGED <<env, storage, checkoutVars, currencyVars>>

TabsNext ==
    \/ \E t \in BOOLEAN : Mount(StoreA, t)
    \/ \E p \in Products, q \in env.qtyArgs : AddToCart(p, q)
    \/ \E p \in Products : RemoveFromCart(p)
    \/ \E p \in Products, q \in env.qtyArgs : UpdateQuantity(p, q)
    \/ ClearCart
    \/ Render
    \/ \E t \in BOOLEAN : PersistEffect(t)
    \/ Unmount
    \/ SwitchTab

TabsSpec == TabsInit /\ [][TabsNext]_vars

\* C29: with two tabs on one store the last write wins.  A write stores the
\* whole cart of the tab that writes, as a load would read it back, and
\* changes nothing in the other tab; and a mounted tab takes its cart from
\* its own updates alone, never from what is stored.
C29_LastWriteWins ==
    [][/\ storage' # storage =>
            /\ page = "store"
            /\ \A k \in Keys \ {storageKey(slug)} : storage'[k] = storage[k]
            /\ initialCart(storage'[storageKey(slug)], FALSE).items = cart
            /\ UNCHANGED <<cart, pendingCart, otherTab>>
       /\ (page = "store" /\ page' = "store" /\ otherTab' = otherTab) =>
            cart' \in {cart, pendingCart}
      ]_vars

\* Both tabs have written; what is stored is the cart of the tab that wrote
\* last and has nothing of the other's.
C29_Witness ==
    /\ page = "store"
    /\ otherTab.page = "store"
    /\ ~hasPending /\ ~effectPending
    /\ ~otherTab.hasPending /\ ~otherTab.effectPending
    /\ cart = <<Line(Prod1, 1)>>
    /\ otherTab.cart = <<Line(Prod2, 1)>>
    /\ storage[storageKey(slug)] = JSON_stringify(cart)

\* ------------------------------------------------------------- submission
\* C30: the page has at most one submission under way.  submitting is true
\* exactly while a placeOrder or initializePayment call of the page is
\* unanswered, and while it is true the Place Order button starts nothing.
C30_OneSubmissionInFlight ==
    page = "store" =>
        /\ submitting <=> order.pc \in {"placeOrder", "initializePayment"}
        /\ submitting => ~ENABLED PlaceOrderClick

C30_Witness ==
    /\ page = "store"
    /\ Settled
    /\ cartOpen
    /\ checkoutStep = "details"
    /\ selectedPaymentMethod = "ONLINE"
    /\ submitting
    /\ order.pc = "initializePayment"
====
